---- MODULE Spec2Model ----
(***************************************************************************)
(* Account system of the Navratri repository: the Express/Mongoose API     *)
(* service (register, login, item CRUD) with its two collections.          *)
(*                                                                         *)
(* Text values are sequences of characters, so that the schema option      *)
(* `trim: true` and the handlers' falsiness tests are computed, not        *)
(* assumed.  Object identifiers are natural numbers handed out by a        *)
(* counter; 0 stands for a path segment that is not a valid ObjectId.      *)
(***************************************************************************)
EXTENDS Integers, Sequences, FiniteSets, Bags

VARIABLES users,       \* the User collection: set of documents
          nextUserId,  \* next fresh User _id
          pending,     \* bag of POST /register requests between findOne and create
          items,       \* the Item collection: set of documents
          nextItemId,  \* next fresh Item _id
          clock,       \* Date.now() as last read by the timestamps plugin
          last,        \* the response most recently sent: the route (with
                       \* req.params where it has any), the line of the
                       \* statement that sent it, and status code with body
          proc,        \* the server process and its mongoose.connect call:
                       \* "connecting" (pending, storage reachable), "failing"
                       \* (pending, storage unreachable), "connected", "exited"
          client       \* one browser session of the React client: the page
                       \* shown, localStorage's userId and the component state

vars == <<users, nextUserId, pending, items, nextItemId, clock, last, proc, client>>
authVars == <<users, nextUserId, pending>>
itemVars == <<items, nextItemId, clock>>

----------------------------------------------------------------------------
(* Bounds *)

MaxUsers == 3       \* User documents ever inserted
MaxInFlight == 2    \* register requests suspended between findOne and create
MaxItems == 2       \* Item documents ever inserted
MaxClock == 1       \* largest timestamp read

----------------------------------------------------------------------------
(* Request values *)

\* A JSON field that is absent from req.body (destructures to undefined).
Undefined == <<"undefined">>

NameInputs == {Undefined, <<" ">>, <<"n", " ">>}
EmailInputs == {<<>>, <<"a">>, <<" ", "a">>, <<"b">>}
PasswordInputs == {Undefined, <<"p">>, <<"p", " ">>}

TitleInputs == {Undefined, <<" ">>, <<"t", " ">>}
DescriptionInputs == {Undefined, <<"d", " ">>}
OwnerInputs == {<<>>, <<"x">>, <<"y">>}
OwnerParams == {<<"x">>, <<"y">>}
IdParams == 0..MaxItems

\* A test for absence only (v === undefined), which lets "" through.
OnlyUndefined(v) == v = Undefined

\* JavaScript `!v` on an absent field or a string.
Falsy(v) == v = Undefined \/ Len(v) = 0

RECURSIVE TrimStart(_)
TrimStart(s) == IF s # <<>> /\ Head(s) = " " THEN TrimStart(Tail(s)) ELSE s

RECURSIVE TrimEnd(_)
TrimEnd(s) ==
    IF s # <<>> /\ s[Len(s)] = " " THEN TrimEnd(SubSeq(s, 1, Len(s) - 1)) ELSE s

\* The String setter installed by the schema option `trim: true`.
Trim(s) == TrimEnd(TrimStart(s))

\* The validator installed by `required: true` on a String path.
Required(s) == s # Undefined /\ Len(s) > 0

Digits == <<"0", "1", "2", "3", "4", "5", "6", "7", "8", "9">>

\* A User _id as res.json writes it, which is what a client sends back as the
\* userId of its Items.
ObjectIdString(id) == <<Digits[id + 1]>>

\* localStorage.getItem of a key that is not stored.
Null == <<"null">>

\* JavaScript `!userId` on what localStorage.getItem returned.
NoUserId(v) == v = Null \/ Len(v) = 0

\* What a component holds before any response reached it.
NoReply == [code |-> 0]

\* The browser showing a page whose component has just been mounted.
ClientIdle(page, storage) ==
    [page |-> page, storage |-> storage,
     loading |-> FALSE, req |-> [email |-> <<>>, password |-> <<>>],
     heard |-> NoReply,
     fetched |-> FALSE, list |-> <<>>, modal |-> "none"]

\* Casting of a string to ObjectId by findByIdAndUpdate / findByIdAndDelete.
IsObjectId(id) == id >= 1

----------------------------------------------------------------------------
(* Responses *)

NoResponse == [route |-> "none", line |-> 0, res |-> [code |-> 0]]

ErrorResp(code, msg) == [code |-> code, status |-> "error", message |-> msg]

\* A body whose userId is a newly generated identifier, not the document's.
FreshIdResp(code, u) ==
    [code |-> code, status |-> "Success",
     userId |-> nextUserId, name |-> u.name, email |-> u.email]

UserResp(code, u) ==
    [code |-> code, status |-> "Success",
     userId |-> u._id, name |-> u.name, email |-> u.email]

\* A serialisation under the schema option versionKey: false.
WithoutVersionKey(i) == [f \in DOMAIN i \ {"__v"} |-> i[f]]

\* The object res.json writes for an Item document: toJSON() with the default
\* options keeps every path of the document under its own name, _id and the
\* version key __v included.
ToJSON(i) == [f \in DOMAIN i |-> i[f]]

\* An exception thrown after the store call, answered by the catch.
ThrownAfterStore(code, i) == ErrorResp(500, "Error creating item")

ItemResp(code, i) == [code |-> code, status |-> "Success", item |-> ToJSON(i)]

DeletedResp == [code |-> 200, status |-> "Success", message |-> "Item deleted"]

\* A list wrapped in the envelope of the other routes.
EnvelopeResp(s) == [code |-> 200, status |-> "Success", items |-> s]

ArrayResp(s) == [code |-> 200, array |-> [k \in 1..Len(s) |-> ToJSON(s[k])]]

\* res.status(code).json(body) at the given line of a route without parameters.
Send(route, line, res) == last' = [route |-> route, line |-> line, res |-> res]

\* The same for a route with a path parameter.
SendFor(route, params, line, res) ==
    last' = [route |-> route, params |-> params, line |-> line, res |-> res]

----------------------------------------------------------------------------
(* Account store *)

\* A password path declared with trim: true like the other two.
TrimmedPassword(p) == Trim(p)

\* password: { type: String, required: true } -- stored verbatim.
StoredPassword(p) == p

\* The document built by User.create from the request fields.
UserDoc(name, email, password) ==
    [name |-> Trim(name), email |-> Trim(email), password |-> StoredPassword(password)]

\* Schema validation run by save() before the insert.
UserValid(doc) ==
    Required(doc.name) /\ Required(doc.email) /\ Required(doc.password)

\* A lookup that filters on the name path instead of the email path.
FindUserByName(email) == {u \in users : u.name = Trim(email)}

\* User.findOne({ email }): the filter is cast through the path's setters.
FindUserByEmail(email) == {u \in users : u.email = Trim(email)}

\* A collection whose unique index was never built.
NoUniqueIndex(doc) == FALSE

\* The unique index on email rejects the insert with E11000.
DuplicateKey(doc) == \E u \in users : u.email = doc.email

\* A comparison that ignores surrounding whitespace.
LooseMismatch(u, password) == Trim(u.password) # Trim(password)

\* user.password !== password
PasswordMismatch(u, password) == u.password # password

RegisterReq(name, email, password) ==
    [name |-> name, email |-> email, password |-> password]

\* POST /register up to the await of User.findOne.
RegisterCheck(name, email, password) ==
    /\ IF Falsy(name) \/ Falsy(email) \/ Falsy(password)
       THEN /\ Send("POST /register", 397, ErrorResp(400, "All fields are required"))
            /\ UNCHANGED pending
       ELSE IF FindUserByEmail(email) # {}
       THEN /\ Send("POST /register", 404, ErrorResp(409, "Email already exists"))
            /\ UNCHANGED pending
       ELSE /\ BagCardinality(pending) < MaxInFlight
            /\ pending' = pending (+) SetToBag({RegisterReq(name, email, password)})
            /\ UNCHANGED last
    /\ UNCHANGED <<users, nextUserId>>
    /\ UNCHANGED itemVars
    /\ UNCHANGED proc

\* An insert that replaces the document holding the email instead of being
\* refused by the unique index.
RegisterUpsert(r) ==
    /\ BagIn(r, pending)
    /\ pending' = pending (-) SetToBag({r})
    /\ LET doc == UserDoc(r.name, r.email, r.password) IN
       IF ~UserValid(doc)
       THEN /\ Send("POST /register", 423, ErrorResp(500, "Error registering user"))
            /\ UNCHANGED <<users, nextUserId>>
       ELSE /\ nextUserId <= MaxUsers
            /\ LET user == [_id |-> nextUserId, name |-> doc.name,
                            email |-> doc.email, password |-> doc.password] IN
               /\ users' = {u \in users : u.email # doc.email} \cup {user}
               /\ Send("POST /register", 411, UserResp(201, user))
            /\ nextUserId' = nextUserId + 1
    /\ UNCHANGED itemVars
    /\ UNCHANGED proc

\* POST /register from User.create to the response (try and catch).
RegisterCreate(r) ==
    /\ BagIn(r, pending)
    /\ pending' = pending (-) SetToBag({r})
    /\ LET doc == UserDoc(r.name, r.email, r.password) IN
       IF ~UserValid(doc)
       THEN /\ Send("POST /register", 423, ErrorResp(500, "Error registering user"))
            /\ UNCHANGED <<users, nextUserId>>
       ELSE IF DuplicateKey(doc)
       THEN /\ Send("POST /register", 420, ErrorResp(409, "Email already exists"))
            /\ UNCHANGED <<users, nextUserId>>
       ELSE /\ nextUserId <= MaxUsers
            /\ LET user == [_id |-> nextUserId, name |-> doc.name,
                            email |-> doc.email, password |-> doc.password] IN
               /\ users' = users \cup {user}
               /\ Send("POST /register", 411, UserResp(201, user))
            /\ nextUserId' = nextUserId + 1
    /\ UNCHANGED itemVars
    /\ UNCHANGED proc

\* A handler that looks the User up before it validates the body.
LookupFirstOutcomes(email, password) ==
    IF FindUserByEmail(email) = {}
    THEN {<<443, ErrorResp(404, "User not found")>>}
    ELSE IF Falsy(email) \/ Falsy(password)
    THEN {<<436, ErrorResp(400, "Email and password are required")>>}
    ELSE {IF PasswordMismatch(u, password)
          THEN <<449, ErrorResp(401, "Incorrect password")>>
          ELSE <<453, UserResp(200, u)>> : u \in FindUserByEmail(email)}

\* POST /login after destructuring: the line and response it ends with.  findOne
\* yields one of the documents matching the filter.
LoginOutcomes(email, password) ==
    IF Falsy(email) \/ Falsy(password)
    THEN {<<436, ErrorResp(400, "Email and password are required")>>}
    ELSE IF FindUserByEmail(email) = {}
    THEN {<<443, ErrorResp(404, "User not found")>>}
    ELSE {IF PasswordMismatch(u, password)
          THEN <<449, ErrorResp(401, "Incorrect password")>>
          ELSE <<453, UserResp(200, u)>> : u \in FindUserByEmail(email)}

\* POST /login.
Login(email, password) ==
    /\ \E o \in LoginOutcomes(email, password) : Send("POST /login", o[1], o[2])
    /\ UNCHANGED authVars
    /\ UNCHANGED itemVars
    /\ UNCHANGED proc

----------------------------------------------------------------------------
(* Item store *)

\* description: { type: String, trim: true, default: "" }
DescriptionOrDefault(description) ==
    IF description = Undefined THEN <<>> ELSE Trim(description)

\* The document built by Item.create from the request fields.
ItemDoc(title, description, userId) ==
    [title |-> Trim(title), description |-> DescriptionOrDefault(description),
     userId |-> userId]

\* A validation that also looks the owner up (User.findById(userId)).
OwnerMustExist(doc) ==
    /\ Required(doc.title)
    /\ Required(doc.userId)
    /\ \E u \in users : ObjectIdString(u._id) = doc.userId

\* Schema validation run by save() before the insert.
ItemValid(doc) == Required(doc.title) /\ Required(doc.userId)

\* Date.now() read by the timestamps plugin: never goes back, may repeat
\* within one millisecond.
Now(t) == t \in {clock, clock + 1} /\ t <= MaxClock

\* A lookup whose filter leaves the identifier out.
FindAnyItem(id) == items

FindItemById(id) == {i \in items : i._id = id}

\* Item.find({ userId })
FindItemsByUser(userId) == {i \in items : i.userId = userId}

\* A replacement of the whole document by the request body, which carries no
\* userId.
OverwriteDocument(i, title, description, t) ==
    [i EXCEPT !.title = Trim(title), !.description = Trim(description),
              !.updatedAt = t, !.userId = Undefined]

\* The $set applied by findByIdAndUpdate(id, { title, description }): the update
\* is cast through the setters, update validators are off, timestamps touch
\* updatedAt.
ApplyUpdate(i, title, description, t) ==
    [i EXCEPT !.title = Trim(title), !.description = Trim(description),
              !.updatedAt = t]

\* The collection after findByIdAndUpdate matched document i.
UpdatedItems(i, title, description, t) ==
    (items \ {i}) \cup {ApplyUpdate(i, title, description, t)}

\* A lookup that finds the document and leaves it in place.
NothingRemoved(i) == items

\* The collection after findByIdAndDelete matched document i.
RemainingItems(i) == items \ {i}

\* The order in which the collection scan yields the documents of a set.
Orderings(S) ==
    {s \in [1..Cardinality(S) -> S] : \A j, k \in 1..Cardinality(S) : j # k => s[j] # s[k]}

\* sort({ createdAt: 1 })
OldestFirst(a, b) == a.createdAt < b.createdAt

\* sort({ createdAt: -1 }): a goes before b.
Before(a, b) == a.createdAt > b.createdAt

RECURSIVE InsertSorted(_, _)
InsertSorted(x, s) ==
    IF s = <<>> THEN <<x>>
    ELSE IF Before(x, Head(s)) THEN <<x>> \o s
    ELSE <<Head(s)>> \o InsertSorted(x, Tail(s))

RECURSIVE SortItems(_)
SortItems(s) ==
    IF s = <<>> THEN <<>>
    ELSE InsertSorted(s[Len(s)], SortItems(SubSeq(s, 1, Len(s) - 1)))

\* POST /items.
CreateItem(title, description, userId) ==
    /\ IF Falsy(title) \/ Falsy(userId)
       THEN /\ Send("POST /items", 478, ErrorResp(400, "Title and userId are required"))
            /\ UNCHANGED itemVars
       ELSE LET doc == ItemDoc(title, description, userId) IN
            IF ~ItemValid(doc)
            THEN /\ Send("POST /items", 492, ErrorResp(500, "Item validation failed"))
                 /\ UNCHANGED itemVars
            ELSE /\ nextItemId <= MaxItems
                 /\ \E t \in 0..MaxClock :
                      /\ Now(t)
                      /\ clock' = t
                      /\ LET item == [_id |-> nextItemId, title |-> doc.title,
                                      description |-> doc.description,
                                      userId |-> doc.userId,
                                      createdAt |-> t, updatedAt |-> t,
                                      __v |-> 0] IN
                         /\ items' = items \cup {item}
                         /\ Send("POST /items", 489, ItemResp(201, item))
                 /\ nextItemId' = nextItemId + 1
    /\ UNCHANGED authVars
    /\ UNCHANGED proc

\* GET /items/:userId.
GetItems(userId) ==
    /\ \E scan \in Orderings(FindItemsByUser(userId)) :
         SendFor("GET /items/:userId", [userId |-> userId], 507, ArrayResp(SortItems(scan)))
    /\ UNCHANGED itemVars
    /\ UNCHANGED authVars
    /\ UNCHANGED proc

\* A handler that looks the Item up before it validates the body.
UpdateLookupFirst(id, title, description) ==
    /\ IF ~IsObjectId(id)
       THEN /\ SendFor("PUT /items/:id", [id |-> id], 539, ErrorResp(500, "Cast to ObjectId failed"))
            /\ UNCHANGED itemVars
       ELSE IF FindItemById(id) = {}
       THEN /\ SendFor("PUT /items/:id", [id |-> id], 532, ErrorResp(404, "Item not found"))
            /\ UNCHANGED itemVars
       ELSE IF Falsy(title) \/ Falsy(description)
       THEN /\ SendFor("PUT /items/:id", [id |-> id], 524, ErrorResp(400, "Title and description are required"))
            /\ UNCHANGED itemVars
       ELSE \E i \in FindItemById(id), t \in 0..MaxClock :
              /\ Now(t)
              /\ clock' = t
              /\ items' = UpdatedItems(i, title, description, t)
              /\ SendFor("PUT /items/:id", [id |-> id], 536, ItemResp(200, ApplyUpdate(i, title, description, t)))
              /\ UNCHANGED nextItemId
    /\ UNCHANGED authVars
    /\ UNCHANGED proc

\* PUT /items/:id.
UpdateItem(id, title, description) ==
    /\ IF Falsy(title) \/ Falsy(description)
       THEN /\ SendFor("PUT /items/:id", [id |-> id], 524, ErrorResp(400, "Title and description are required"))
            /\ UNCHANGED itemVars
       ELSE IF ~IsObjectId(id)
       THEN /\ SendFor("PUT /items/:id", [id |-> id], 539, ErrorResp(500, "Cast to ObjectId failed"))
            /\ UNCHANGED itemVars
       ELSE IF FindItemById(id) = {}
       THEN /\ SendFor("PUT /items/:id", [id |-> id], 532, ErrorResp(404, "Item not found"))
            /\ UNCHANGED itemVars
       ELSE \E i \in FindItemById(id), t \in 0..MaxClock :
              /\ Now(t)
              /\ clock' = t
              /\ items' = UpdatedItems(i, title, description, t)
              /\ SendFor("PUT /items/:id", [id |-> id], 536, ItemResp(200, ApplyUpdate(i, title, description, t)))
              /\ UNCHANGED nextItemId
    /\ UNCHANGED authVars
    /\ UNCHANGED proc

\* DELETE /items/:id.
DeleteItem(id) ==
    /\ IF ~IsObjectId(id)
       THEN /\ SendFor("DELETE /items/:id", [id |-> id], 562, ErrorResp(500, "Cast to ObjectId failed"))
            /\ UNCHANGED itemVars
       ELSE IF FindItemById(id) = {}
       THEN /\ SendFor("DELETE /items/:id", [id |-> id], 555, ErrorResp(404, "Item not found"))
            /\ UNCHANGED itemVars
       ELSE \E i \in FindItemById(id) :
              /\ items' = RemainingItems(i)
              /\ SendFor("DELETE /items/:id", [id |-> id], 559, DeletedResp)
              /\ UNCHANGED <<nextItemId, clock>>
    /\ UNCHANGED authVars
    /\ UNCHANGED proc

----------------------------------------------------------------------------

Init ==
    /\ users = {}
    /\ nextUserId = 1
    /\ pending = EmptyBag
    /\ items = {}
    /\ nextItemId = 1
    /\ clock = 0
    /\ last = NoResponse
    /\ proc = "connected"
    /\ client = ClientIdle("login", Null)

AuthNext ==
    \/ \E n \in NameInputs, e \in EmailInputs, p \in PasswordInputs :
         RegisterCheck(n, e, p) /\ UNCHANGED client
    \/ \E r \in BagToSet(pending) : RegisterCreate(r) /\ UNCHANGED client
    \/ \E e \in EmailInputs, p \in PasswordInputs : Login(e, p) /\ UNCHANGED client

AuthSpec == Init /\ [][AuthNext]_vars

ItemNext ==
    \/ \E t \in TitleInputs, d \in DescriptionInputs, o \in OwnerInputs :
         CreateItem(t, d, o) /\ UNCHANGED client
    \/ \E o \in OwnerParams : GetItems(o) /\ UNCHANGED client
    \/ \E id \in IdParams, t \in TitleInputs, d \in DescriptionInputs :
         UpdateItem(id, t, d) /\ UNCHANGED client
    \/ \E id \in IdParams : DeleteItem(id) /\ UNCHANGED client

ItemSpec == Init /\ [][ItemNext]_vars

Next == AuthNext \/ ItemNext

Spec == Init /\ [][Next]_vars

\* The two stores behind one server, on a reduced request alphabet.
CoreNames == NameInputs
CoreEmails == {<<>>, <<"a">>}
CorePasswords == {<<"p">>, <<"p", " ">>}
CoreTitles == TitleInputs
CoreOwners == {<<>>, <<"x">>}

CoreNext ==
    \/ \E n \in CoreNames : RegisterCheck(n, <<"a">>, <<"p">>) /\ UNCHANGED client
    \/ \E r \in BagToSet(pending) : RegisterCreate(r) /\ UNCHANGED client
    \/ \E e \in CoreEmails, p \in CorePasswords : Login(e, p) /\ UNCHANGED client
    \/ \E t \in CoreTitles, o \in CoreOwners :
         CreateItem(t, Undefined, o) /\ UNCHANGED client
    \/ GetItems(<<"x">>) /\ UNCHANGED client
    \/ \E id \in IdParams, t \in {Undefined, <<"t", " ">>} :
         UpdateItem(id, t, <<"d", " ">>) /\ UNCHANGED client
    \/ \E id \in IdParams : DeleteItem(id) /\ UNCHANGED client

CoreSpec == Init /\ [][CoreNext]_vars

\* The process from its launch.  The module body starts mongoose.connect in an
\* async function it does not wait for and goes on to app.listen, so requests
\* are handled while the connection attempt is pending; a store call made then
\* is buffered by Mongoose until the connection is up.
BootInit ==
    /\ users = {}
    /\ nextUserId = 1
    /\ pending = EmptyBag
    /\ items = {}
    /\ nextItemId = 1
    /\ clock = 0
    /\ last = NoResponse
    /\ proc \in {"connecting", "failing"}
    /\ client = ClientIdle("login", Null)

\* await mongoose.connect(...) resolves.
Connected ==
    /\ proc = "connecting"
    /\ proc' = "connected"
    /\ UNCHANGED <<authVars, itemVars, last, client>>

\* await mongoose.connect(...) rejects: the catch calls process.exit(1).
ConnectFailed ==
    /\ proc = "failing"
    /\ proc' = "exited"
    /\ UNCHANGED <<authVars, itemVars, last, client>>

\* A request that its handler refuses before any store call.
EarlyRefusal ==
    \/ \E n \in CoreNames, e \in CoreEmails :
         (Falsy(n) \/ Falsy(e)) /\ RegisterCheck(n, e, <<"p">>)
    \/ \E p \in CorePasswords : Login(<<>>, p)
    \/ \E t \in CoreTitles, o \in CoreOwners :
         (Falsy(t) \/ Falsy(o)) /\ CreateItem(t, Undefined, o)
    \/ \E id \in IdParams : UpdateItem(id, Undefined, <<"d", " ">>)

\* A request whose store call stays buffered until Mongoose gives up
\* (bufferTimeoutMS): the rejection is answered by the handler's catch.
BufferTimeout ==
    /\ \/ Send("POST /register", 423, ErrorResp(500, "Error registering user"))
       \/ Send("POST /login", 461, ErrorResp(500, "Error logging in"))
       \/ Send("POST /items", 492, ErrorResp(500, "buffering timed out"))
       \/ \E o \in OwnerParams :
            SendFor("GET /items/:userId", [userId |-> o], 510, ErrorResp(500, "buffering timed out"))
       \/ \E id \in IdParams :
            SendFor("PUT /items/:id", [id |-> id], 539, ErrorResp(500, "buffering timed out"))
       \/ \E id \in IdParams :
            SendFor("DELETE /items/:id", [id |-> id], 562, ErrorResp(500, "buffering timed out"))
    /\ UNCHANGED <<authVars, itemVars, proc, client>>

BootNext ==
    \/ Connected
    \/ ConnectFailed
    \/ proc \in {"connecting", "failing"} /\ EarlyRefusal /\ UNCHANGED client
    \/ proc \in {"connecting", "failing"} /\ BufferTimeout
    \/ proc = "connected" /\ CoreNext

BootSpec == BootInit /\ [][BootNext]_vars

\* The Items of one owner, with every kind of Update body.
EditTitles == TitleInputs \cup {<<>>}
EditDescriptions == DescriptionInputs \cup {<<>>}

EditNext ==
    \/ CreateItem(<<"t", " ">>, Undefined, <<"x">>) /\ UNCHANGED client
    \/ GetItems(<<"x">>) /\ UNCHANGED client
    \/ \E id \in IdParams, t \in EditTitles, d \in EditDescriptions :
         UpdateItem(id, t, d) /\ UNCHANGED client
    \/ \E id \in IdParams : DeleteItem(id) /\ UNCHANGED client

EditSpec == Init /\ [][EditNext]_vars

(***************************************************************************)
(* The React client: Login and Home of one browser session                 *)
(***************************************************************************)

\* The account the session signs in to, registered before the browser opens.
Registered ==
    LET doc == UserDoc(<<"n", " ">>, <<"a">>, <<"p">>) IN
    [_id |-> 1, name |-> doc.name, email |-> doc.email, password |-> doc.password]

\* What the user types into the Login form and the Home forms.
TypedEmails == {<<"a">>, <<"b">>}
TypedPasswords == {<<"p">>, <<"q">>}
TypedTitles == {<<" ">>, <<"t", " ">>}
TypedDescriptions == {<<>>, <<"d", " ">>}

\* The browser opened on /login or /home, with or without a userId left in
\* localStorage by an earlier session.
ClientInit ==
    /\ users = {Registered}
    /\ nextUserId = 2
    /\ pending = EmptyBag
    /\ items = {}
    /\ nextItemId = 1
    /\ clock = 0
    /\ last = NoResponse
    /\ proc = "connected"
    /\ \E page \in {"login", "home"}, storage \in {Null, ObjectIdString(1)} :
         client = ClientIdle(page, storage)

\* Login.handleSubmit up to the axios.post: the button is disabled while
\* loading or while a field is empty.
LoginSubmit(email, password) ==
    /\ client.page = "login"
    /\ ~client.loading
    /\ ~Falsy(email) /\ ~Falsy(password)
    /\ client' = [client EXCEPT !.loading = TRUE, !.heard = NoReply,
                                !.req = [email |-> email, password |-> password]]
    /\ UNCHANGED <<authVars, itemVars, last, proc>>

\* axios resolves on a 2xx response and rejects on any other.
Resolved(res) == res.code \in 200..299

\* Login.handleSubmit storing whatever userId the reply carries, without
\* looking at its status.
LoginAnsweredUnchecked ==
    /\ client.page = "login"
    /\ client.loading
    /\ client.heard = NoReply
    /\ Login(client.req.email, client.req.password)
    /\ client' = [client EXCEPT !.heard = last'.res,
                                !.storage = IF "userId" \in DOMAIN last'.res
                                            THEN ObjectIdString(last'.res.userId)
                                            ELSE <<"undefined">>]

\* Login.handleSubmit from the response to the dialog it opens: the userId
\* is stored on status "Success" only.
LoginAnswered ==
    /\ client.page = "login"
    /\ client.loading
    /\ client.heard = NoReply
    /\ Login(client.req.email, client.req.password)
    /\ client' = IF Resolved(last'.res) /\ last'.res.status = "Success"
                 THEN [client EXCEPT !.heard = last'.res,
                                     !.storage = ObjectIdString(last'.res.userId)]
                 ELSE [client EXCEPT !.heard = last'.res]

\* The request never reaches the server: axios rejects without a response.
NetworkError == [code |-> 0, status |-> "error"]

LoginNetworkError ==
    /\ client.page = "login"
    /\ client.loading
    /\ client.heard = NoReply
    /\ client' = [client EXCEPT !.heard = NetworkError]
    /\ UNCHANGED <<authVars, itemVars, last, proc>>

\* Login.handleSubmit after its dialog closed: navigate on success, and the
\* finally block in every case.
LoginSettled ==
    /\ client.page = "login"
    /\ client.loading
    /\ client.heard # NoReply
    /\ client' = IF Resolved(client.heard) /\ client.heard.status = "Success"
                 THEN ClientIdle("home", client.storage)
                 ELSE [client EXCEPT !.loading = FALSE]
    /\ UNCHANGED <<authVars, itemVars, last, proc>>

\* Home's effect without its guard: the list is requested whatever
\* localStorage holds.
HomeMountUnguarded ==
    /\ client.page = "home"
    /\ ~client.fetched
    /\ GetItems(client.storage)
    /\ client' = [client EXCEPT !.fetched = TRUE, !.list = last'.res.array]

\* Home's effect on mount: without a userId it navigates to /login, with one
\* it loads the list.
HomeMount ==
    /\ client.page = "home"
    /\ ~client.fetched
    /\ IF NoUserId(client.storage)
       THEN /\ client' = ClientIdle("login", client.storage)
            /\ UNCHANGED <<authVars, itemVars, last, proc>>
       ELSE /\ GetItems(client.storage)
            /\ client' = [client EXCEPT !.fetched = TRUE, !.list = last'.res.array]

\* Home.handleAdd: both fields trimmed and required, the new item appended.
HomeAdd(title, description) ==
    /\ client.page = "home"
    /\ client.fetched
    /\ client.modal = "none"
    /\ ~Falsy(Trim(title)) /\ ~Falsy(Trim(description))
    /\ CreateItem(Trim(title), Trim(description), client.storage)
    /\ client' = IF Resolved(last'.res)
                 THEN [client EXCEPT !.list = Append(@, last'.res.item)]
                 ELSE client

\* The list without the item of the given _id.
RECURSIVE Without(_, _)
Without(list, id) ==
    IF list = <<>> THEN <<>>
    ELSE IF list[1]._id = id THEN Without(Tail(list), id)
    ELSE <<list[1]>> \o Without(Tail(list), id)

\* Home.handleDelete of a listed item, once confirmed.
HomeDelete(k) ==
    /\ client.page = "home"
    /\ client.fetched
    /\ client.modal = "none"
    /\ k \in 1..Len(client.list)
    /\ DeleteItem(client.list[k]._id)
    /\ client' = IF Resolved(last'.res)
                 THEN [client EXCEPT !.list = Without(@, client.list[k]._id)]
                 ELSE client

\* The list with the item of the same _id replaced by the returned one.
Replaced(list, item) ==
    [j \in 1..Len(list) |-> IF list[j]._id = item._id THEN item ELSE list[j]]

\* Home.handleEdit of a listed item: the dialog trims and requires both fields.
HomeEdit(k, title, description) ==
    /\ client.page = "home"
    /\ client.fetched
    /\ client.modal = "none"
    /\ k \in 1..Len(client.list)
    /\ ~Falsy(Trim(title)) /\ ~Falsy(Trim(description))
    /\ UpdateItem(client.list[k]._id, Trim(title), Trim(description))
    /\ client' = IF Resolved(last'.res)
                 THEN [client EXCEPT !.list = Replaced(@, last'.res.item)]
                 ELSE client

\* Home.handleLogout: the confirmation dialog, ...
LogoutAsk ==
    /\ client.page = "home"
    /\ client.fetched
    /\ client.modal = "none"
    /\ client' = [client EXCEPT !.modal = "logout?"]
    /\ UNCHANGED <<authVars, itemVars, last, proc>>

\* ... its answer: a cancellation returns at once, a confirmation removes the
\* userId and shows a timed dialog, ...
LogoutAnswer(isConfirmed) ==
    /\ client.modal = "logout?"
    /\ client' = IF ~isConfirmed
                 THEN [client EXCEPT !.modal = "none"]
                 ELSE [client EXCEPT !.modal = "logged out", !.storage = Null]
    /\ UNCHANGED <<authVars, itemVars, last, proc>>

\* ... and the navigation once the timed dialog closed.
LogoutNavigate ==
    /\ client.modal = "logged out"
    /\ client' = ClientIdle("login", client.storage)
    /\ UNCHANGED <<authVars, itemVars, last, proc>>

\* The browser reloads /home: Home is mounted anew.
Reload ==
    /\ client.page = "home"
    /\ client.fetched
    /\ client.modal = "none"
    /\ client' = ClientIdle("home", client.storage)
    /\ UNCHANGED <<authVars, itemVars, last, proc>>

ClientNext ==
    \/ \E e \in TypedEmails, p \in TypedPasswords : LoginSubmit(e, p)
    \/ LoginAnswered
    \/ LoginNetworkError
    \/ LoginSettled
    \/ HomeMount
    \/ \E t \in TypedTitles, d \in TypedDescriptions : HomeAdd(t, d)
    \/ \E k \in 1..MaxItems : HomeDelete(k)
    \/ \E k \in 1..MaxItems, t \in TypedTitles, d \in TypedDescriptions : HomeEdit(k, t, d)
    \/ LogoutAsk
    \/ \E isConfirmed \in BOOLEAN : LogoutAnswer(isConfirmed)
    \/ LogoutNavigate
    \/ Reload

ClientSpec == ClientInit /\ [][ClientNext]_vars

----------------------------------------------------------------------------
(* Account store: claims *)

\* C1: in every reachable state, whatever the interleaving of register
\* requests, no two stored User documents have the same email.
C1_UniqueEmail == \A u, v \in users : u.email = v.email => u = v

\* A request that passed the existence check is still waiting to insert while
\* another request has taken its email, and a second email is stored too.
C1_Witness ==
    /\ Cardinality(users) = 2
    /\ \E r \in BagToSet(pending) : \E u \in users :
         u.email = Trim(r.email) /\ UserValid(UserDoc(r.name, r.email, r.password))

\* C2 (as stated): Register with an email that a stored User has is answered
\* 409 whatever name and password come with it, and no User is created.
C2_Original ==
    [][\A n \in NameInputs, e \in EmailInputs, p \in PasswordInputs :
         ((\E u \in users : u.email = e) /\ RegisterCheck(n, e, p))
           => /\ last'.route = "POST /register"
              /\ last'.res.code = 409
              /\ users' = users]_vars

\* C2 (amended): Register with a non-empty name, a non-empty password and an
\* email that a stored User has when the existence check runs is answered 409;
\* no User is created and the request goes no further.
C2_ConflictOnPresentEmail ==
    [][\A n \in NameInputs, e \in EmailInputs, p \in PasswordInputs :
         (/\ ~Falsy(n) /\ ~Falsy(p)
          /\ \E u \in users : u.email = e
          /\ RegisterCheck(n, e, p))
           => /\ last'.route = "POST /register"
              /\ last'.res.code = 409
              /\ last'.res.status = "error"
              /\ users' = users
              /\ pending' = pending]_vars

\* The existence check has just refused a request: a User is stored.
C2_Witness ==
    /\ last.route = "POST /register"
    /\ last.line = 404
    /\ last.res.code = 409
    /\ users # {}

\* C3 (as stated): of the registrations with one email that all passed the
\* existence check, every one that reaches its insert after the email was taken
\* is answered 409 (never 500, never a second 201) and stores nothing.
C3_Original ==
    [][\A r \in BagToSet(pending) :
         ((\E u \in users : u.email = Trim(r.email)) /\ RegisterCreate(r))
           => /\ last'.route = "POST /register"
              /\ last'.res.code = 409
              /\ users' = users]_vars

\* C4 (as stated): once Register(name, email, password) has succeeded,
\* Authenticate with the same email and password succeeds and returns the name
\* and email that were supplied to Register.
C4_Original ==
    [][\A r \in BagToSet(pending) :
         (last'.line = 411 /\ RegisterCreate(r))
           => \A o \in LoginOutcomes(r.email, r.password)' :
                /\ o[2].code = 200
                /\ o[2].name = r.name
                /\ o[2].email = r.email]_vars

\* C4 (amended): once Register(name, email, password) has succeeded,
\* Authenticate with the same email and password succeeds and returns the
\* userId that Register returned, with the supplied name and email stripped of
\* leading and trailing whitespace.
C4_RegisterThenAuthenticate ==
    [][\A r \in BagToSet(pending) :
         (last'.line = 411 /\ RegisterCreate(r))
           => /\ last'.res.code = 201
              /\ last'.res.name = Trim(r.name)
              /\ last'.res.email = Trim(r.email)
              /\ \A o \in LoginOutcomes(r.email, r.password)' :
                   /\ o[2].code = 200
                   /\ o[2].status = "Success"
                   /\ o[2].userId = last'.res.userId
                   /\ o[2].name = Trim(r.name)
                   /\ o[2].email = Trim(r.email)]_vars

\* A login has succeeded for the User registered under the name "n ".
C4_Witness ==
    /\ last.route = "POST /login"
    /\ last.res.code = 200
    /\ last.res.name = <<"n">>
    /\ \E u \in users : u._id = last.res.userId /\ u.password = <<"p", " ">>

\* C5 (as stated): Authenticate with the email of a stored User and a password
\* other than the stored one is answered 401; with an email no stored User has
\* it is answered 404, whatever the password.
C5_Original ==
    [][\A e \in EmailInputs, p \in PasswordInputs :
         (last'.route = "POST /login" /\ Login(e, p))
           => /\ (\E u \in users : u.email = e /\ u.password # p)
                   => last'.res.code = 401
              /\ (\A u \in users : u.email # e)
                   => last'.res.code = 404]_vars

\* C5 (amended): Authenticate with a non-empty email and a non-empty password
\* is answered 401 when a stored User has the email, compared after stripping
\* leading and trailing whitespace from it, and a password other than the
\* supplied one; it is answered 404 when no stored User has the stripped email.
\* The Account Store is unchanged.
C5_LoginFailures ==
    [][\A e \in EmailInputs, p \in PasswordInputs :
         (last'.route = "POST /login" /\ ~Falsy(e) /\ ~Falsy(p) /\ Login(e, p))
           => /\ (\E u \in users : u.email = Trim(e) /\ u.password # p)
                   => (last'.res.code = 401 /\ last'.res.status = "error")
              /\ (\A u \in users : u.email # Trim(e))
                   => (last'.res.code = 404 /\ last'.res.status = "error")
              /\ users' = users]_vars

\* A login has just been refused for a wrong password while a User is stored
\* whose password differs from another accepted input only by a trailing blank.
C5_Witness ==
    /\ last.route = "POST /login"
    /\ last.line = 449
    /\ last.res.code = 401
    /\ \E u \in users : u.password = <<"p", " ">>

----------------------------------------------------------------------------
(* Item store: claims *)

\* The set of elements of a sequence.
Range(s) == {s[k] : k \in 1..Len(s)}

C7_Original ==
    [][\A id \in IdParams, t \in TitleInputs, d \in DescriptionInputs :
         (/\ last'.route = "PUT /items/:id"
          /\ ~Falsy(t) /\ ~Falsy(d)
          /\ FindItemById(id) = {}
          /\ UpdateItem(id, t, d))
           => /\ last'.res.code = 404
              /\ items' = items]_vars

\* C8: an Update(id, title, description) answered 200 replaces, in the Item with
\* that identifier and in no other, the title and description by the supplied
\* ones as the schema stores them (trimmed) and returns the Item as now stored;
\* its identifier, userId and createdAt are the old ones and no Item is added
\* or removed.
C8_UpdateFrame ==
    [][(last'.route = "PUT /items/:id" /\ last'.res.code = 200)
         => \A t \in TitleInputs, d \in DescriptionInputs :
              UpdateItem(last'.params.id, t, d)
                => \E i \in items :
                     LET j == last'.res.item IN
                     /\ i._id = last'.params.id
                     /\ j._id = i._id
                     /\ j.userId = i.userId
                     /\ j.createdAt = i.createdAt
                     /\ j.title = Trim(t)
                     /\ j.description = Trim(d)
                     /\ items' = (items \ {i}) \cup {j}
                     /\ nextItemId' = nextItemId]_vars

\* An Update has just rewritten the title and description of one of two Items.
C8_Witness ==
    /\ last.route = "PUT /items/:id"
    /\ last.res.code = 200
    /\ last.res.item.title = <<"t">>
    /\ last.res.item.description = <<"d">>
    /\ last.res.item.updatedAt > last.res.item.createdAt
    /\ Cardinality(items) = 2

\* C9: for an identifier that was assigned to an Item, a Delete is answered 200
\* exactly when the Item is still stored, and then removes it and nothing else;
\* otherwise it is answered 404 and changes nothing; and once the Item is gone
\* no step brings the identifier back.  So of any number of Deletes of one
\* existing identifier, in any interleaving, the first is answered 200 and
\* every other one 404.
C9_DeleteOnce ==
    [][/\ (/\ last'.route = "DELETE /items/:id"
           /\ 1 <= last'.params.id
           /\ last'.params.id < nextItemId
           /\ DeleteItem(last'.params.id))
            => LET id == last'.params.id IN
               IF FindItemById(id) # {}
               THEN /\ last'.res.code = 200
                    /\ last'.res.status = "Success"
                    /\ items' = {i \in items : i._id # id}
               ELSE /\ last'.res.code = 404
                    /\ items' = items
       /\ items' # items
            => \A id \in 1..(nextItemId - 1) :
                 FindItemById(id) = {} => FindItemById(id)' = {}]_vars

\* A Delete of an identifier that was assigned and already deleted has just
\* been answered 404.
C9_Witness ==
    /\ last.route = "DELETE /items/:id"
    /\ last.res.code = 404
    /\ 1 <= last.params.id
    /\ last.params.id < nextItemId
    /\ FindItemById(last.params.id) = {}

\* C10 (as stated): Delete of an identifier that no Item has is answered 404;
\* otherwise it is answered 200 and removes the Item for good: the identifier
\* is never stored again, by Create or otherwise, and every later Delete or
\* (well-formed) Update of it is answered 404.
C10_Original ==
    [][\A id \in IdParams :
         /\ (last'.route = "DELETE /items/:id" /\ DeleteItem(id))
              => IF FindItemById(id) = {}
                 THEN last'.res.code = 404
                 ELSE last'.res.code = 200 /\ FindItemById(id)' = {}
         /\ (id < nextItemId /\ FindItemById(id) = {})
              => /\ FindItemById(id)' = {}
                 /\ \A t \in TitleInputs, d \in DescriptionInputs :
                      (/\ last'.route = "PUT /items/:id"
                       /\ ~Falsy(t) /\ ~Falsy(d)
                       /\ UpdateItem(id, t, d))
                        => last'.res.code = 404]_vars


\* C11 (as stated): Create is answered 400 and stores nothing when title or
\* ownerId is empty or missing; when both are non-empty it is answered 201,
\* whatever the description (a missing one is stored as empty text), and
\* returns the stored Item, whose identifier no Item had before.
C11_Original ==
    [][last'.route = "POST /items"
         => \A t \in TitleInputs, d \in DescriptionInputs, o \in OwnerInputs :
              CreateItem(t, d, o)
                => IF Falsy(t) \/ Falsy(o)
                   THEN /\ last'.res.code = 400
                        /\ items' = items
                   ELSE /\ last'.res.code = 201
                        /\ \E i \in items' \ items :
                             /\ last'.res.item = i
                             /\ items' = items \cup {i}
                             /\ \A j \in items : j._id # i._id
                             /\ d = Undefined => i.description = <<>>]_vars


\* C12: Register with a name, email or password that is empty or missing is
\* answered 400 with an error body at once; no User is created and the request
\* goes no further.
C12_RegisterValidation ==
    [][\A n \in NameInputs, e \in EmailInputs, p \in PasswordInputs :
         ((\E v \in {n, e, p} : v = Undefined \/ v = <<>>) /\ RegisterCheck(n, e, p))
           => /\ last'.route = "POST /register"
              /\ last'.line = 397
              /\ last'.res.code = 400
              /\ last'.res.status = "error"
              /\ users' = users
              /\ nextUserId' = nextUserId
              /\ pending' = pending]_vars

\* A registration has just been refused for an empty or missing field while a
\* User is stored and another request is waiting to insert.
C12_Witness ==
    /\ last.route = "POST /register"
    /\ last.line = 397
    /\ last.res.code = 400
    /\ users # {}
    /\ pending # EmptyBag


\* C14 (as stated): in every reachable state, after any sequence of Creates and
\* Updates that the API accepted, every stored Item has a non-empty title and
\* one non-empty owning-user identifier.
C14_Original ==
    \A i \in items :
      /\ i.title # Undefined /\ Len(i.title) > 0
      /\ i.userId # Undefined /\ Len(i.userId) > 0

\* The item objects of the response most recently sent.
ReturnedItems ==
    IF "item" \in DOMAIN last.res THEN {last.res.item}
    ELSE IF "array" \in DOMAIN last.res THEN Range(last.res.array)
    ELSE {}

\* C19 (as stated): every item object returned by Create, List and Update has
\* exactly the fields id, title, description, ownerId, createdAt and updatedAt.
C19_Original ==
    \A i \in ReturnedItems :
      DOMAIN i = {"id", "title", "description", "ownerId", "createdAt", "updatedAt"}

\* C19 (amended): every item object returned by Create, List and Update has
\* exactly the fields _id, title, description, userId, createdAt, updatedAt and
\* __v, with the values of the stored Item.
C19_ItemFields ==
    \A i \in ReturnedItems :
      /\ DOMAIN i = {"_id", "title", "description", "userId", "createdAt",
                     "updatedAt", "__v"}
      /\ i.__v = 0
      /\ i \in items

\* A List has just returned two item objects, one of them updated since it was
\* created.
C19_Witness ==
    /\ last.route = "GET /items/:userId"
    /\ Cardinality(ReturnedItems) = 2
    /\ \E i \in ReturnedItems : i.updatedAt > i.createdAt

----------------------------------------------------------------------------
(* Both stores: claims *)

ErrorCodes == {400, 401, 404, 409, 500}

\* C13: a step that ends with an error response (400, 401, 404, 409 or 500) of
\* Register, Login, Create, List, Update or Delete leaves the User collection
\* and the Item collection exactly as they were, and assigns no identifier.
C13_NoPartialState ==
    [][last'.res.code \in ErrorCodes
         => /\ users' = users
            /\ items' = items
            /\ nextUserId' = nextUserId
            /\ nextItemId' = nextItemId]_vars

\* A registration has just been refused by the unique index at its insert,
\* while a User and an Item are stored.
C13_Witness ==
    /\ last.route = "POST /register"
    /\ last.line = 420
    /\ last.res.code = 409
    /\ users # {}
    /\ items # {}


\* C15: every stored User stays stored with the same identifier, name, email and
\* password, and no two Users share an identifier; the User collection changes
\* only by a Register answered 201, which adds exactly the User it returns,
\* under an identifier no User had; Login and the four Item routes leave the
\* collection and the identifier counter as they were.
C15_UsersImmutable ==
    [][/\ users \subseteq users'
       /\ \A u, v \in users' : u._id = v._id => u = v
       /\ users' # users
            => /\ last'.route = "POST /register"
               /\ last'.res.code = 201
               /\ \E u \in users' \ users :
                    /\ users' = users \cup {u}
                    /\ u._id = last'.res.userId
                    /\ u.name = last'.res.name
                    /\ u.email = last'.res.email
                    /\ \A v \in users : v._id # u._id
       /\ last'.route \in {"POST /login", "POST /items", "GET /items/:userId",
                           "PUT /items/:id", "DELETE /items/:id"}
            => users' = users /\ nextUserId' = nextUserId]_vars

\* An Item of a stored User's session has just been deleted and the User is
\* still stored.
C15_Witness ==
    /\ last.route = "DELETE /items/:id"
    /\ last.res.code = 200
    /\ \E u \in users : u.name = <<"n">> /\ u.email = <<"a">> /\ u.password = <<"p">>
    /\ nextItemId > 1


\* C16: a Register answered 201 returns the identifier of the User it stored;
\* that User keeps its identifier and email ever after; and every Login
\* answered 200 for an email returns the identifier of the stored User with
\* that email.  So every successful Login with a User's email returns the
\* userId that Register returned for it, whatever happened in between.
C16_StableUserId ==
    [][/\ \A r \in BagToSet(pending) :
            (last'.line = 411 /\ RegisterCreate(r))
              => \E u \in users' \ users :
                   u._id = last'.res.userId /\ u.email = Trim(r.email)
       /\ \A u \in users : \E v \in users' : v._id = u._id /\ v.email = u.email
       /\ (last'.route = "POST /login" /\ last'.res.code = 200)
            => \A e \in EmailInputs, p \in PasswordInputs :
                 Login(e, p)
                   => \A u \in users' :
                        u.email = Trim(e) => last'.res.userId = u._id]_vars

\* A Login has just returned the identifier of the first registered User after
\* Items were created.
C16_Witness ==
    /\ last.route = "POST /login"
    /\ last.line = 453
    /\ last.res.userId = 1
    /\ \E u \in users : u._id = 1 /\ u.email = last.res.email
    /\ items # {}


\* C17: no Item route looks at the User collection.  A Create with an
\* acceptable title and a non-empty userId that is the identifier of no stored
\* User is answered 201 and stores the Item under that userId; a List answers
\* the stored Items of the userId it is given, an Update or Delete of a stored
\* Item with acceptable fields is answered 200, whether or not any User has the
\* userId concerned.
C17_AdvisoryOwnership ==
    [][/\ last'.route = "POST /items"
            => \A o \in CoreOwners :
                 (~Falsy(o) /\ \A u \in users : ObjectIdString(u._id) # o)
                   => \A t \in CoreTitles :
                        (~Falsy(t) /\ Trim(t) # <<>> /\ CreateItem(t, Undefined, o))
                          => /\ last'.res.code = 201
                             /\ last'.res.item.userId = o
                             /\ last'.res.item \in items' \ items
       /\ last'.route = "GET /items/:userId"
            => LET o == last'.params.userId IN
               (\A u \in users : ObjectIdString(u._id) # o)
                 => /\ last'.res.code = 200
                    /\ Range(last'.res.array) = {i \in items : i.userId = o}
       /\ last'.route = "PUT /items/:id"
            => \A i \in FindItemById(last'.params.id) :
                 (\A u \in users : ObjectIdString(u._id) # i.userId)
                   => \A t \in CoreTitles :
                        (~Falsy(t) /\ UpdateItem(i._id, t, <<"d", " ">>))
                          => last'.res.code = 200
       /\ last'.route = "DELETE /items/:id"
            => \A i \in FindItemById(last'.params.id) :
                 (\A u \in users : ObjectIdString(u._id) # i.userId)
                   => (DeleteItem(i._id)
                         => last'.res.code = 200 /\ i \notin items')]_vars

\* An Item has just been created under a userId that is not the identifier of
\* the User that is stored.
C17_Witness ==
    /\ last.route = "POST /items"
    /\ last.res.code = 201
    /\ last.res.item \in items
    /\ users # {}
    /\ \A u \in users : ObjectIdString(u._id) # last.res.item.userId


\* C18: every response sent has one of three shapes.  A success of Register
\* (201), Login (200), Create (201), Update (200) or Delete (200) has a body
\* with status "Success"; a success of List (200) is the bare array of Items,
\* empty when the owner has none; every failure has code 400, 401, 404, 409 or
\* 500 and the body {status: "error", message} and nothing else.
C18_ResponseShapes ==
    LET r == last.res IN
    \/ last = NoResponse
    \/ /\ r.code \in ErrorCodes
       /\ DOMAIN r = {"code", "status", "message"}
       /\ r.status = "error"
    \/ /\ last.route = "GET /items/:userId"
       /\ r.code = 200
       /\ DOMAIN r = {"code", "array"}
       /\ Len(r.array) = Cardinality(FindItemsByUser(last.params.userId))
    \/ /\ \/ last.route \in {"POST /register", "POST /items"} /\ r.code = 201
          \/ last.route \in {"POST /login", "PUT /items/:id", "DELETE /items/:id"}
               /\ r.code = 200
       /\ "status" \in DOMAIN r
       /\ r.status = "Success"

\* A List for an owner without Items has just been answered with the empty
\* array: the Items created are gone, and a User is stored.
C18_Witness ==
    /\ last.route = "GET /items/:userId"
    /\ last.res.code = 200
    /\ last.res.array = <<>>
    /\ nextItemId > 1
    /\ users # {}


\* C20 (as stated): when the storage is unreachable at launch, no request is
\* answered between the start of the process and its exit.
C20_Original == proc \in {"failing", "exited"} => last = NoResponse


----------------------------------------------------------------------------
(* Validation order and races: claims *)

\* C21: an Update whose title or description is empty or missing is answered
\* 400 by the handler's first check, whether or not an Item has the identifier
\* (and whether or not the identifier is well-formed), and changes nothing.
C21_UpdateValidationFirst ==
    [][last'.route = "PUT /items/:id"
         => \A t \in EditTitles, d \in EditDescriptions :
              ((\E v \in {t, d} : v = Undefined \/ v = <<>>)
               /\ UpdateItem(last'.params.id, t, d))
                => /\ last'.line = 524
                   /\ last'.res.code = 400
                   /\ last'.res.status = "error"
                   /\ items' = items
                   /\ nextItemId' = nextItemId
                   /\ clock' = clock]_vars

\* An Update has just been refused for its body although no Item has the
\* identifier it names: that Item was deleted, another one is stored.
C21_Witness ==
    /\ last.route = "PUT /items/:id"
    /\ last.line = 524
    /\ last.res.code = 400
    /\ 1 <= last.params.id
    /\ last.params.id < nextItemId
    /\ \A i \in items : i._id # last.params.id
    /\ items # {}


\* C22: a Login whose email or password is empty or missing is answered 400 by
\* the handler's first check, whether or not a stored User has the email (as
\* given or trimmed), never 404 or 401, and changes nothing.
C22_LoginValidationFirst ==
    [][last'.route = "POST /login"
         => \A e \in EmailInputs, p \in PasswordInputs :
              ((\E v \in {e, p} : v = Undefined \/ v = <<>>) /\ Login(e, p))
                => /\ last'.line = 436
                   /\ last'.res.code = 400
                   /\ last'.res.status = "error"
                   /\ users' = users
                   /\ pending' = pending]_vars

\* A Login without a usable password has just been refused while Users are
\* stored under both emails that requests carry.
C22_Witness ==
    /\ last.route = "POST /login"
    /\ last.line = 436
    /\ last.res.code = 400
    /\ \E u, v \in users : u.email = <<"a">> /\ v.email = <<"b">>


\* C23 (as stated): whatever Updates were applied, a list response holds the
\* surviving Items of the owner in the reverse of the order in which they were
\* created (identifiers are handed out in creation order).
C23_Original ==
    last.route = "GET /items/:userId"
      => \A j, k \in 1..Len(last.res.array) :
           j < k => last.res.array[j]._id > last.res.array[k]._id


\* C24: for an identifier that was assigned to an Item, in any interleaving of
\* Updates and Deletes: once the Item is gone it is never stored again; when a
\* Delete has answered 200 the Item is absent; and an Update with a usable
\* title and description is answered 200 exactly when the Item is stored at
\* the step that applies it, and keeps it stored, and is answered 404 and
\* changes nothing otherwise.
C24_NoResurrection ==
    [][/\ items' # items
            => \A id \in 1..(nextItemId - 1) :
                 (\A i \in items : i._id # id) => (\A i \in items' : i._id # id)
       /\ (last'.route = "DELETE /items/:id" /\ last'.res.code = 200)
            => \A i \in items' : i._id # last'.params.id
       /\ (/\ last'.route = "PUT /items/:id"
           /\ 1 <= last'.params.id
           /\ last'.params.id < nextItemId)
            => LET id == last'.params.id IN
               \A t \in EditTitles :
                 ~Falsy(t)
                   => \A d \in EditDescriptions :
                        (~Falsy(d) /\ UpdateItem(id, t, d))
                          => IF \E i \in items : i._id = id
                             THEN /\ last'.res.code = 200
                                  /\ last'.res.item._id = id
                                  /\ last'.res.item \in items'
                             ELSE /\ last'.res.code = 404
                                  /\ items' = items]_vars

\* An Update of an Item that a Delete removed has just been answered 404 while
\* another Item is stored.
C24_Witness ==
    /\ last.route = "PUT /items/:id"
    /\ last.line = 532
    /\ last.res.code = 404
    /\ 1 <= last.params.id
    /\ last.params.id < nextItemId
    /\ items # {}


(***************************************************************************)
(* The React client: claims                                                *)
(***************************************************************************)

\* The arrays GET /items/:userId can answer with in the current state.
ListingsOf(userId) ==
    {ArrayResp(SortItems(scan)).array : scan \in Orderings(FindItemsByUser(userId))}

\* C25 as stated: whenever Home has loaded its list and no action is under
\* way, the list it holds is one GET /items/:userId would return now, with
\* the same items in the same order.
C25_Original ==
    (client.page = "home" /\ client.fetched /\ ~NoUserId(client.storage))
        => client.list \in ListingsOf(client.storage)

\* C26: Home requests the list only with the userId it found in localStorage;
\* a Home without a stored userId only navigates to /login and sends nothing;
\* Home leaves for /login only when the userId is already gone; a confirmed
\* logout removes the userId while Home is still shown, and a cancelled one
\* leaves the userId and the page as they were.
C26_NoFetchWithoutUserId ==
    [][/\ (last' # last /\ last'.route = "GET /items/:userId")
            => /\ client.page = "home"
               /\ ~NoUserId(client.storage)
               /\ last'.params.userId = client.storage
       /\ (client.page = "home" /\ NoUserId(client.storage) /\ client' # client)
            => /\ client'.page = "login"
               /\ last' = last
               /\ UNCHANGED <<authVars, itemVars>>
       /\ (client.page = "home" /\ client'.page = "login")
            => /\ NoUserId(client.storage)
               /\ client'.storage = client.storage
       /\ (client.modal = "logout?" /\ client'.modal = "logged out")
            => /\ client'.storage = Null
               /\ client'.page = "home"
       /\ (client.modal = "logout?" /\ client'.modal = "none")
            => /\ client'.storage = client.storage
               /\ client'.page = "home"]_vars

\* A logout was confirmed in a Home that had loaded its list: the userId is
\* removed and Home is still shown.
C26_Witness ==
    /\ client.page = "home"
    /\ client.modal = "logged out"
    /\ client.storage = Null
    /\ last.route = "GET /items/:userId"

\* The reply Login.handleSubmit received is a login response with status
\* "Success".
LoginSucceeded(res) == res.code = 200 /\ res.status = "Success"

\* C27: on the Login page the stored userId changes only in the step that
\* receives a login response with status "Success", and then to the userId of
\* that response; the page changes to /home only after such a response; when
\* the reply is an error response or a network error the stored userId and
\* the page stay as they were, and the step that ends the submission resets
\* the loading flag.
C27_LoginStoresOnSuccessOnly ==
    [][/\ (client.page = "login" /\ client'.storage # client.storage)
            => /\ Login(client.req.email, client.req.password)
               /\ last'.route = "POST /login"
               /\ LoginSucceeded(last'.res)
               /\ client'.storage = ObjectIdString(last'.res.userId)
       /\ (client.page = "login" /\ client'.page = "home")
            => /\ last.route = "POST /login"
               /\ LoginSucceeded(last.res)
               /\ client.storage = ObjectIdString(last.res.userId)
       /\ (client.page = "login" /\ client.loading /\ client.heard = NoReply
             /\ client'.heard # NoReply /\ ~LoginSucceeded(client'.heard))
            => /\ client'.storage = client.storage
               /\ client'.page = "login"
       /\ (client.page = "login" /\ client.loading /\ client.heard # NoReply
             /\ ~LoginSucceeded(client.heard) /\ client' # client)
            => /\ client'.storage = client.storage
               /\ client'.page = "login"
               /\ ~client'.loading]_vars

\* A submission with a wrong password has ended on the Login page of a browser
\* that held a userId: the userId is still there and the flag is reset.
C27_Witness ==
    /\ client.page = "login"
    /\ ~client.loading
    /\ client.heard.code = 401
    /\ last.line = 449
    /\ client.storage = ObjectIdString(1)
====
